---- MODULE Spec2Model ----
(***************************************************************************)
(* Model of the deep-research orchestrator (deep_research.py), the        *)
(* credential filter (lib/env.py) and the Gemini provider client with its *)
(* polling loop (lib/gemini_dr.py).                                        *)
(*                                                                         *)
(* Python dicts are records; d.get(k, default) is Get(d, k, default).      *)
(* A JSON value whose Python type the code tests with isinstance is        *)
(* wrapped: [str |-> s] for a string, [dict |-> d] for an object.          *)
(* A text is a sequence of tokens; an f-string is the tuple of its pieces. *)
(***************************************************************************)
EXTENDS Integers, Sequences, FiniteSets, TLC

VARIABLES
    mock,          \* args.mock
    config,        \* env.get_config(): key name -> credential
    fixtures,      \* content of the fixture file of each provider
    pc,            \* position of main()
    available,     \* the list `available` of main()
    unit,          \* state of the future of each provider
    future,        \* value returned by run_provider, per provider
    pending,       \* futures as_completed has not yielded yet
    results,       \* the list `results` of main()
    timedOut,      \* as_completed raised TimeoutError
    output,        \* what main() handed to render_json / render_compact
    gpc,           \* position of gemini_dr.research()
    interaction_id,\* local of research()
    attempt,       \* loop variable of _poll_response
    getCount,      \* number of http.get calls issued
    sleepCount,    \* number of time.sleep calls that returned
    nonTermSeen,   \* number of poll responses that carried no terminal status
    lastGet,       \* response of the most recent http.get
    outcome,       \* what research() returned or raised, per provider
    notices,       \* the lines the as_completed loop wrote to stderr
    postCount,     \* number of http.post calls issued
    subResp,       \* the local `resp` of research(): <<>> or <<response>>
    httpFailedAt,  \* number of HTTP calls issued when one raised, else -1
    statusNotices, \* number of "[Gemini] Status: ..." lines written to stderr
    finished,      \* finished futures not yet yielded, in completion order
    snapshot       \* futures as_completed found finished when it started

vars == <<mock, config, fixtures, pc, available, unit, future, pending,
          results, timedOut, output, gpc, interaction_id, attempt, getCount,
          sleepCount, nonTermSeen, lastGet, outcome, notices, postCount,
          subResp, httpFailedAt, statusNotices, finished, snapshot>>

orchVars == <<mock, config, fixtures, pc, available, pending, results,
              timedOut, output, notices, snapshot>>
unitVars == <<unit, future, outcome, finished>>
gemVars == <<gpc, interaction_id, attempt, getCount, sleepCount, nonTermSeen,
             lastGet, postCount, subResp, httpFailedAt, statusNotices>>

----------------------------------------------------------------------------
(* Python helpers *)

EmptyDict == <<>>

Get(d, k, default) == IF k \in DOMAIN d THEN d[k] ELSE default

Opt(k, vals) == {EmptyDict} \cup {k :> v : v \in vals}

IsDict(v) == "dict" \in DOMAIN v

IsStr(v) == "str" \in DOMAIN v

----------------------------------------------------------------------------
(* gemini_dr.py constants *)

POLL_INTERVAL == 15

MAX_POLL_ATTEMPTS == 40

AGENT == "deep-research-pro-preview-12-2025"

(* deep_research.py tables *)

Providers == {"openai", "perplexity", "gemini"}

PROVIDER_KEY_MAP ==
    [p \in Providers |->
        CASE p = "openai" -> "OPENAI_API_KEY"
          [] p = "perplexity" -> "PERPLEXITY_API_KEY"
          [] p = "gemini" -> "GEMINI_API_KEY"]

_KEY_NAMES == {"OPENAI_API_KEY", "PERPLEXITY_API_KEY", "GEMINI_API_KEY"}

fixture_map ==
    [p \in Providers |->
        CASE p = "openai" -> "openai_sample.json"
          [] p = "perplexity" -> "perplexity_sample.json"
          [] p = "gemini" -> "gemini_sample.json"]

----------------------------------------------------------------------------
(* Values the environment supplies *)

\* A credential as get_config() yields it: None, the empty string, or a key.
NoCred == "<None>"

CredValues == {NoCred, "", "sk-key"}

\* A fixture file: absent, or a JSON object.
FixtureFiles ==
    { [exists |-> FALSE],
      [exists |-> TRUE, data |-> EmptyDict],
      [exists |-> TRUE, data |-> [report |-> <<"fixture", "report">>]],
      [exists |-> TRUE,
       data |-> [success |-> FALSE, error |-> <<"HTTPError", ": ", "quota">>]],
      [exists |-> TRUE, data |-> [success |-> FALSE]] }

NoFixtures == [p \in Providers |-> [exists |-> FALSE]]

\* Exceptions: a type name and the pieces of str(e).
HTTPError(msg) == [type |-> "HTTPError", msg |-> msg]

\* What lib/http raises on a transport failure (timeout, connection, non-2xx).
TransportErrors == { HTTPError(<<"HTTP 503">>) }

\* A failure no provider client classifies.
UnexpectedErrors == { [type |-> "KeyError", msg |-> <<"'choices'">>] }

\* What the research() of openai_dr and perplexity_dr can do: return a
\* (report, citations, model) triple or raise.
OtherResearchOutcomes(p) ==
    { [kind |-> "returned", report |-> <<"report", p>>, citations |-> <<>>,
       model |-> p] }
    \cup { [kind |-> "raised", exc |-> e] :
             e \in TransportErrors \cup UnexpectedErrors }

\* Tokens of a text that the pattern https?://[^\s\)>\]]+ matches.
UrlTokens == {"u1", "u2", "u3"}

\* Content fields of a Gemini interaction response.
BodyFields ==
    { EmptyDict,
      "outputs" :> << [dict |-> [text |-> <<"w1", "u1", "u1", "u2">>]] >>,
      ("result" :> [dict |-> [content |-> <<"w2">>]])
        @@ ("sources" :> [list |-> << [str |-> "u3"],
                                      [dict |-> [url |-> "u1", title |-> "t1"]] >>]) }

ErrorFields ==
    Opt("error", { [str |-> "boom"],
                   [dict |-> [message |-> "quota exceeded"]],
                   [dict |-> EmptyDict] })

TerminalFailed == {"failed", "FAILED"}

TerminalCompleted == {"completed", "COMPLETED"}

StatusStrings ==
    TerminalCompleted \cup TerminalFailed \cup {"in_progress", "Completed"}

StatusFields ==
    Opt("status", StatusStrings)
      \cup { "metadata" :> [status |-> s] : s \in {"completed", "failed"} }
      \cup { ("status" :> "failed") @@ ("metadata" :> [status |-> "completed"]) }

\* The identifier the provider gives the background job.
JobId == "interactions/job-1"

IdFields ==
    { a @@ b @@ c : a \in Opt("name", {"", JobId}), b \in Opt("id", {JobId}),
                    c \in Opt("interactionId", {JobId}) }

----------------------------------------------------------------------------
(* lib/gemini_dr.py: pure parts *)

IsList(v) == "list" \in DOMAIN v

\* resp.get("status", resp.get("metadata", {}).get("status", ""))
StatusOf(resp) ==
    Get(resp, "status", Get(Get(resp, "metadata", EmptyDict), "status", ""))

\* Mutant: a response without an id yields a placeholder id.
InteractionIdOfDefaulted(resp) ==
    Get(resp, "name", Get(resp, "id", Get(resp, "interactionId", "unknown")))

\* resp.get("name", resp.get("id", resp.get("interactionId", "")))
InteractionIdOf(resp) ==
    Get(resp, "name", Get(resp, "id", Get(resp, "interactionId", "")))

\* Mutant: a string error is not read.
FailedMessageDictOnly(resp) ==
    LET error == Get(resp, "error", [dict |-> EmptyDict])
        msg == IF IsDict(error)
               THEN Get(error.dict, "message", "Unknown error")
               ELSE "Unknown error"
    IN  <<"Gemini deep research failed: ", msg>>

\* The message of the failure raised for a response with a failed status.
FailedMessage(resp) ==
    LET error == Get(resp, "error", [dict |-> EmptyDict])
        msg == IF IsDict(error)
               THEN Get(error.dict, "message", "Unknown error")
               ELSE error.str
    IN  <<"Gemini deep research failed: ", msg>>

TimedOutMessage ==
    <<"Gemini deep research timed out after ",
      ToString(MAX_POLL_ATTEMPTS * POLL_INTERVAL), "s">>

NoIdMessage == <<"No interaction ID returned from Gemini">>

\* dict.get("text", dict.get("content", ""))
TextOf(d) == Get(d, "text", Get(d, "content", <<>>))

\* Mutant: every URL found is appended, seen or not.
DedupeNone(urls, seen) == [i \in DOMAIN urls |-> [url |-> urls[i]]]

RECURSIVE Dedupe(_, _)
\* The loop over `urls` with the set `seen`.
Dedupe(urls, seen) ==
    IF urls = <<>> THEN <<>>
    ELSE IF Head(urls) \in seen THEN Dedupe(Tail(urls), seen)
    ELSE <<[url |-> Head(urls)]>> \o Dedupe(Tail(urls), seen \cup {Head(urls)})

RECURSIVE StructuredCitations(_)
\* The loop over `sources`.
StructuredCitations(sources) ==
    IF sources = <<>> THEN <<>>
    ELSE LET src == Head(sources)
             one == IF IsStr(src) THEN <<[url |-> src.str]>>
                    ELSE IF IsDict(src)
                    THEN <<[url |-> Get(src.dict, "url", Get(src.dict, "uri", "")),
                            title |-> Get(src.dict, "title", "")]>>
                    ELSE <<>>
         IN  one \o StructuredCitations(Tail(sources))

\* re.findall(r'https?://[^\s\)>\]]+', report): the URL words of the text.
FindUrls(report) == SelectSeq(report, LAMBDA tok : tok \in UrlTokens)

\* Mutant: the report text is scanned whatever the structured pass found.
CitationsAlwaysScanned(structured, report) ==
    structured \o Dedupe(FindUrls(report), {})

\* `if not citations and report:` the fallback, else the structured list.
CitationsOf(structured, report) ==
    IF structured = <<>> /\ report # <<>>
    THEN Dedupe(FindUrls(report), {})
    ELSE structured

_extract_report(response) ==
    LET outputs == Get(response, "outputs", <<>>)
        last_output == outputs[Len(outputs)]
        fromOutputs ==
            IF outputs = <<>> THEN <<>>
            ELSE IF IsDict(last_output) THEN TextOf(last_output.dict)
            ELSE IF IsStr(last_output) THEN last_output.str
            ELSE <<>>
        result == Get(response, "result", [dict |-> EmptyDict])
        report ==
            IF fromOutputs # <<>> THEN fromOutputs
            ELSE IF IsDict(result) THEN TextOf(result.dict)
            ELSE <<>>
        sources ==
            Get(response, "sources",
                Get(Get(response, "groundingMetadata", EmptyDict),
                    "webSearchQueries", [list |-> <<>>]))
        structured ==
            IF IsList(sources) THEN StructuredCitations(sources.list) ELSE <<>>
    IN  [report |-> report, citations |-> CitationsOf(structured, report)]

\* The triple research() returns for a completed response.
ResearchReturn(response) ==
    LET ex == _extract_report(response)
    IN  [kind |-> "returned", report |-> ex.report,
         citations |-> ex.citations, model |-> AGENT]

ResearchRaise(e) == [kind |-> "raised", exc |-> e]

NoOutcome == [kind |-> "none"]

\* Mutant: only the upper-case spelling ends the loop as completed.
ClassifyUpperOnly(status) ==
    IF status = "COMPLETED" THEN "completed"
    ELSE IF status \in TerminalFailed THEN "failed"
    ELSE "pending"

\* How _poll_response treats the status of a poll response.
Classify(status) ==
    IF status \in TerminalCompleted THEN "completed"
    ELSE IF status \in TerminalFailed THEN "failed"
    ELSE "pending"

----------------------------------------------------------------------------
(* deep_research.py: pure parts *)

NoError == <<>>

\* lib.render.ProviderResult; report, citations and error default to
\* "", [] and None.
ProviderResult(provider, success, report, citations, error) ==
    [provider |-> provider, success |-> success, report |-> report,
     citations |-> citations, error |-> error]

\* f"{type(e).__name__}: {e}"
FormatError(e) == <<e.type, ": ">> \o e.msg

\* Mutant: the error keeps the message and loses the type of the failure.
run_provider_message_only(provider, o) ==
    IF o.kind = "returned"
    THEN ProviderResult(provider, TRUE, o.report, o.citations, NoError)
    ELSE ProviderResult(provider, FALSE, <<>>, <<>>, o.exc.msg)

\* run_provider: the outcome of module.research() made a ProviderResult.
run_provider(provider, o) ==
    IF o.kind = "returned"
    THEN ProviderResult(provider, TRUE, o.report, o.citations, NoError)
    ELSE ProviderResult(provider, FALSE, <<>>, <<>>, FormatError(o.exc))

\* Mutant: a missing fixture file reads as a fixture with an empty report.
load_fixture_default(file) ==
    IF file.exists THEN file.data ELSE [report |-> <<>>]

\* load_fixture: the JSON object of the file, {} when there is no file.
load_fixture(file) == IF file.exists THEN file.data ELSE EmptyDict

RECURSIVE run_mock(_, _)
run_mock(providers, files) ==
    IF providers = <<>> THEN <<>>
    ELSE LET provider == Head(providers)
             fixture == load_fixture(files[provider])
             one ==
                IF fixture # EmptyDict
                THEN ProviderResult(provider,
                                    Get(fixture, "success", TRUE),
                                    Get(fixture, "report", <<>>),
                                    Get(fixture, "citations", <<>>),
                                    Get(fixture, "error", NoError))
                ELSE ProviderResult(provider, FALSE, <<>>, <<>>,
                                    <<"Fixture not found: ", fixture_map[provider]>>)
         IN  <<one>> \o run_mock(Tail(providers), files)

\* order = {"openai": 0, "perplexity": 1, "gemini": 2}
order == [openai |-> 0, perplexity |-> 1, gemini |-> 2]

\* key=lambda r: order.get(r.provider, 99)
SortKey(r) == Get(order, r.provider, 99)

RECURSIVE InsertByKey(_, _)
InsertByKey(r, s) ==
    IF s = <<>> THEN <<r>>
    ELSE IF SortKey(Head(s)) >= SortKey(r) THEN <<r>> \o s
    ELSE <<Head(s)>> \o InsertByKey(r, Tail(s))

\* Mutant: the results are left in collection order.
SortResultsSkipped(s) == s

RECURSIVE SortResults(_)
\* results.sort(key=...): a stable sort.
SortResults(s) ==
    IF s = <<>> THEN <<>> ELSE InsertByKey(Head(s), SortResults(Tail(s)))

\* Mutant: an empty credential counts as configured.
TruthyNotNone(cred) == cred # NoCred

\* A credential is usable when it is truthy.
Truthy(cred) == cred # NoCred /\ cred # ""

\* env.get_available_providers
get_available_providers(cfg) ==
    (IF Truthy(cfg["OPENAI_API_KEY"]) THEN <<"openai">> ELSE <<>>)
    \o (IF Truthy(cfg["PERPLEXITY_API_KEY"]) THEN <<"perplexity">> ELSE <<>>)
    \o (IF Truthy(cfg["GEMINI_API_KEY"]) THEN <<"gemini">> ELSE <<>>)

AllProviders == <<"openai", "perplexity", "gemini">>

Range(s) == {s[i] : i \in DOMAIN s}

----------------------------------------------------------------------------
(* Responses of the Gemini Interactions API *)

\* The responses considered: an error or a content is varied only under the
\* plain status that makes the client read it.
WellFormed(statusPart, errorPart, bodyPart) ==
    /\ errorPart # EmptyDict => statusPart = "status" :> "failed"
    /\ bodyPart # EmptyDict => statusPart = "status" :> "completed"

\* Responses to GET /interactions/{id}
PollResponses ==
    { a @@ b @@ c : <<a, b, c>> \in
        { t \in StatusFields \X ErrorFields \X BodyFields :
            WellFormed(t[1], t[2], t[3]) } }

\* The submission responses considered that send research() into the
\* polling loop: an id and no completed status.
PollingSubmissions ==
    { "name" :> JobId,
      ("id" :> JobId) @@ ("status" :> "in_progress") }

\* Whether a response with these id and status fields carries a usable id
\* (under the first of name, id, interactionId it has) and no completed
\* status.
StartsPolling(idPart, statusPart) ==
    /\ \/ "name" \in DOMAIN idPart /\ idPart["name"] # ""
       \/ "name" \notin DOMAIN idPart /\ DOMAIN idPart # {}
    /\ statusPart \notin { "status" :> "completed", "status" :> "COMPLETED",
                           "metadata" :> [status |-> "completed"] }

\* Responses to POST /interactions: every combination that ends research()
\* at the submission, and PollingSubmissions.
SubmitResponses ==
    { i @@ a @@ c : <<i, a, c>> \in
        { t \in IdFields \X StatusFields \X BodyFields :
            /\ WellFormed(t[2], EmptyDict, t[3])
            /\ StartsPolling(t[1], t[2]) => (t[1] @@ t[2]) \in PollingSubmissions } }

NoResponse == EmptyDict

NoResult == ProviderResult("", FALSE, <<>>, <<>>, NoError)

NoOutput == [kind |-> "none", results |-> <<>>]

----------------------------------------------------------------------------
(* Initial state: the arguments, the credentials and the fixture files *)

Init ==
    /\ mock \in BOOLEAN
    /\ config \in [_KEY_NAMES -> CredValues]
    /\ fixtures \in IF mock THEN [Providers -> FixtureFiles] ELSE {NoFixtures}
    /\ pc = "start"
    /\ available = <<>>
    /\ unit = [p \in Providers |-> "none"]
    /\ future = [p \in Providers |-> NoResult]
    /\ pending = {}
    /\ results = <<>>
    /\ timedOut = FALSE
    /\ output = NoOutput
    /\ gpc = "idle"
    /\ interaction_id = ""
    /\ attempt = 0
    /\ getCount = 0
    /\ sleepCount = 0
    /\ nonTermSeen = 0
    /\ lastGet = NoResponse
    /\ outcome = [p \in Providers |-> NoOutcome]
    /\ notices = <<>>
    /\ postCount = 0
    /\ subResp = <<>>
    /\ httpFailedAt = -1
    /\ statusNotices = 0
    /\ finished = <<>>
    /\ snapshot = {}

----------------------------------------------------------------------------
(* main() of deep_research.py *)

\* No credential and not --mock: print the error object and exit(1).
MainNoKeys ==
    /\ pc = "start"
    /\ ~mock
    /\ get_available_providers(config) = <<>>
    /\ available' = <<>>
    /\ output' = [kind |-> "error", results |-> <<>>]
    /\ pc' = "exit1"
    /\ UNCHANGED <<mock, config, fixtures, pending, results, timedOut,
                   notices, snapshot>>
    /\ UNCHANGED <<unitVars, gemVars>>

\* --mock: all three providers, results from the fixtures.
MainMock ==
    /\ pc = "start"
    /\ mock
    /\ available' = AllProviders
    /\ results' = run_mock(AllProviders, fixtures)
    /\ pc' = "sort"
    /\ UNCHANGED <<mock, config, fixtures, pending, timedOut, output,
                   notices, snapshot>>
    /\ UNCHANGED <<unitVars, gemVars>>

\* One executor.submit(run_provider, ...) per available provider.
MainDispatch ==
    /\ pc = "start"
    /\ ~mock
    /\ get_available_providers(config) # <<>>
    /\ available' = get_available_providers(config)
    /\ unit' = [p \in Providers |->
                  IF p \in Range(available') THEN "running" ELSE "none"]
    /\ pending' = Range(available')
    /\ gpc' = IF "gemini" \in Range(available') THEN "submit" ELSE "idle"
    /\ pc' = "as_completed"
    /\ UNCHANGED <<mock, config, fixtures, future, results, timedOut, output,
                   notices, interaction_id, attempt, getCount, sleepCount,
                   nonTermSeen, lastGet, outcome, postCount, subResp,
                   httpFailedAt, statusNotices, finished, snapshot>>

\* f"  [{provider.upper()}] {status} (...)" with status OK or FAIL
Notice(p, result) == <<p, IF result.success THEN "OK" ELSE "FAIL">>

\* What the body of the as_completed loop appends for a finished future.
Collected(p) == Append(results, future[p])

Without(s, p) == SelectSeq(s, LAMBDA x : x # p)

\* The first iteration of `for future in as_completed(...)`: the generator
\* starts and notes the futures that have finished already.
StartCollect ==
    /\ pc = "as_completed"
    /\ snapshot' = {p \in pending : unit[p] = "done"}
    /\ pc' = "collect"
    /\ UNCHANGED <<mock, config, fixtures, available, pending, results,
                   timedOut, output, notices>>
    /\ UNCHANGED <<unitVars, gemVars>>

\* The future as_completed may yield next: any of those it found finished
\* when it started (it keeps them in a set), and after them the others in
\* the order in which they finish.
YieldsNext(p) ==
    \/ p \in snapshot
    \/ snapshot = {} /\ finished # <<>> /\ p = Head(finished)

\* as_completed yields a finished future; the loop body records its result.
Collect(p) ==
    /\ pc = "collect"
    /\ p \in pending
    /\ unit[p] = "done"
    /\ YieldsNext(p)
    /\ results' = Collected(p)
    /\ notices' = Append(notices, Notice(p, future[p]))
    /\ pending' = pending \ {p}
    /\ finished' = Without(finished, p)
    /\ snapshot' = snapshot \ {p}
    /\ UNCHANGED <<mock, config, fixtures, pc, available, timedOut, output>>
    /\ UNCHANGED <<unit, future, outcome>>
    /\ UNCHANGED gemVars

\* as_completed is exhausted; the with block ends with every unit finished.
ExitPool ==
    /\ pc = "collect"
    /\ pending = {}
    /\ pc' = "sort"
    /\ UNCHANGED <<mock, config, fixtures, available, pending, results,
                   timedOut, output, notices, snapshot>>
    /\ UNCHANGED <<unitVars, gemVars>>

\* Where main() continues when as_completed raises TimeoutError: nothing in
\* main() catches it, so the with block's __exit__ runs shutdown(wait=True).
AfterTimeout == "shutdown"

\* The deadline of as_completed passes with a future not yet yielded.
Timeout ==
    /\ pc = "collect"
    /\ pending # {}
    /\ snapshot = {}
    /\ timedOut' = TRUE
    /\ pc' = AfterTimeout
    /\ UNCHANGED <<mock, config, fixtures, available, pending, results,
                   output, notices, snapshot>>
    /\ UNCHANGED <<unitVars, gemVars>>

\* shutdown(wait=True) returns once every worker has finished; the
\* TimeoutError then leaves main().
Shutdown ==
    /\ pc = "shutdown"
    /\ \A p \in Providers : unit[p] # "running"
    /\ pc' = "crashed"
    /\ UNCHANGED <<mock, config, fixtures, available, pending, results,
                   timedOut, output, notices, snapshot>>
    /\ UNCHANGED <<unitVars, gemVars>>

\* results.sort(...) and the output.
SortAndEmit ==
    /\ pc = "sort"
    /\ results' = SortResults(results)
    /\ output' = [kind |-> "results", results |-> results']
    /\ pc' = "done"
    /\ UNCHANGED <<mock, config, fixtures, available, pending, timedOut,
                   notices, snapshot>>
    /\ UNCHANGED <<unitVars, gemVars>>

----------------------------------------------------------------------------
(* The units of work: run_provider in a worker thread *)

\* run_provider for openai or perplexity: research() returns or raises.
OtherUnit(p) ==
    /\ p \in {"openai", "perplexity"}
    /\ unit[p] = "running"
    /\ \E o \in OtherResearchOutcomes(p) :
          /\ outcome' = [outcome EXCEPT ![p] = o]
          /\ future' = [future EXCEPT ![p] = run_provider(p, o)]
    /\ unit' = [unit EXCEPT ![p] = "done"]
    /\ finished' = Append(finished, p)
    /\ UNCHANGED orchVars
    /\ UNCHANGED gemVars

\* gemini_dr.research() ends with `outcome`; run_provider wraps it.
Finish(o) ==
    /\ outcome' = [outcome EXCEPT !["gemini"] = o]
    /\ gpc' = o.kind
    /\ future' = [future EXCEPT !["gemini"] = run_provider("gemini", o)]
    /\ unit' = [unit EXCEPT !["gemini"] = "done"]
    /\ finished' = Append(finished, "gemini")

\* Mutant: the failed HTTP call is issued again.
OnHttpFailureRetry(e) == UNCHANGED <<gpc, unit, future, outcome, finished>>

\* http.post or http.get raises: nothing in research() or _poll_response
\* catches it, so research() raises it.
OnHttpFailure(e) == Finish(ResearchRaise(e))

\* Where research() goes after a submission response with an id that does
\* not already carry a completed status.
AfterSubmit(resp) ==
    /\ gpc' = "poll"
    /\ interaction_id' = InteractionIdOf(resp)
    /\ UNCHANGED unitVars

\* Mutant: research() polls whatever status the submission response has.
GSubmitAlwaysPolls ==
    /\ unit["gemini"] = "running"
    /\ gpc = "submit"
    /\ \E resp \in SubmitResponses :
          /\ subResp' = <<resp>>
          /\ IF InteractionIdOf(resp) = ""
             THEN Finish(ResearchRaise(HTTPError(NoIdMessage)))
                  /\ UNCHANGED interaction_id
             ELSE AfterSubmit(resp)
    /\ postCount' = postCount + 1
    /\ UNCHANGED <<attempt, getCount, sleepCount, nonTermSeen, lastGet,
                   httpFailedAt, statusNotices>>
    /\ UNCHANGED orchVars

\* http.post returns; research() up to the call of _poll_response.
GSubmit ==
    /\ unit["gemini"] = "running"
    /\ gpc = "submit"
    /\ \E resp \in SubmitResponses :
          /\ subResp' = <<resp>>
          /\ IF InteractionIdOf(resp) = ""
             THEN Finish(ResearchRaise(HTTPError(NoIdMessage)))
                  /\ UNCHANGED interaction_id
             ELSE IF StatusOf(resp) \in TerminalCompleted
             THEN Finish(ResearchReturn(resp))
                  /\ interaction_id' = InteractionIdOf(resp)
             ELSE AfterSubmit(resp)
    /\ postCount' = postCount + 1
    /\ UNCHANGED <<attempt, getCount, sleepCount, nonTermSeen, lastGet,
                   httpFailedAt, statusNotices>>
    /\ UNCHANGED orchVars

\* http.post raises.
GSubmitFail ==
    /\ unit["gemini"] = "running"
    /\ gpc = "submit"
    /\ \E e \in TransportErrors : OnHttpFailure(e)
    /\ postCount' = postCount + 1
    /\ httpFailedAt' = postCount' + getCount
    /\ UNCHANGED <<interaction_id, attempt, getCount, sleepCount, nonTermSeen,
                   lastGet, subResp, statusNotices>>
    /\ UNCHANGED orchVars

\* Mutant: the last iteration raises the timeout without sleeping first.
HandlePollNoFinalSleep(resp) ==
    CASE Classify(StatusOf(resp)) = "completed" ->
            Finish(ResearchReturn(resp)) /\ UNCHANGED statusNotices
      [] Classify(StatusOf(resp)) = "failed" ->
            Finish(ResearchRaise(HTTPError(FailedMessage(resp))))
            /\ UNCHANGED statusNotices
      [] OTHER ->
            /\ statusNotices' = statusNotices + 1
            /\ IF attempt + 1 < MAX_POLL_ATTEMPTS
               THEN gpc' = "sleep" /\ UNCHANGED unitVars
               ELSE Finish(ResearchRaise(HTTPError(TimedOutMessage)))

\* Mutant: a status that is not terminal is waited for without a notice.
HandlePollSilent(resp) ==
    CASE Classify(StatusOf(resp)) = "completed" ->
            Finish(ResearchReturn(resp)) /\ UNCHANGED statusNotices
      [] Classify(StatusOf(resp)) = "failed" ->
            Finish(ResearchRaise(HTTPError(FailedMessage(resp))))
            /\ UNCHANGED statusNotices
      [] OTHER ->
            gpc' = "sleep" /\ UNCHANGED <<unitVars, statusNotices>>

\* What _poll_response does with the response of one http.get: return it,
\* raise, or write the status notice and go to time.sleep.
HandlePoll(resp) ==
    CASE Classify(StatusOf(resp)) = "completed" ->
            Finish(ResearchReturn(resp)) /\ UNCHANGED statusNotices
      [] Classify(StatusOf(resp)) = "failed" ->
            Finish(ResearchRaise(HTTPError(FailedMessage(resp))))
            /\ UNCHANGED statusNotices
      [] OTHER ->
            /\ statusNotices' = statusNotices + 1
            /\ gpc' = "sleep"
            /\ UNCHANGED unitVars

\* Mutant: the loop goes on polling after research() has raised.
CanPollAfterFailure == gpc \in {"poll", "raised"}

\* The polling loop may issue an http.get here.
CanPoll == unit["gemini"] = "running" /\ gpc = "poll"

\* One iteration of the polling loop up to time.sleep: http.get returns.
GPoll ==
    /\ CanPoll
    /\ \E resp \in PollResponses :
          /\ lastGet' = resp
          /\ nonTermSeen' =
                IF StatusOf(resp) \in TerminalCompleted \cup TerminalFailed
                THEN nonTermSeen ELSE nonTermSeen + 1
          /\ HandlePoll(resp)
    /\ getCount' = getCount + 1
    /\ UNCHANGED <<interaction_id, attempt, sleepCount, postCount, subResp,
                   httpFailedAt>>
    /\ UNCHANGED orchVars

\* http.get raises.
GPollFail ==
    /\ CanPoll
    /\ \E e \in TransportErrors : OnHttpFailure(e)
    /\ getCount' = getCount + 1
    /\ httpFailedAt' = postCount + getCount'
    /\ UNCHANGED <<interaction_id, attempt, sleepCount, nonTermSeen, lastGet,
                   postCount, subResp, statusNotices>>
    /\ UNCHANGED orchVars

\* Mutant: the loop has no ceiling.
InRangeForever(n) == TRUE

\* Mutant: one iteration too many.
InRangeOffByOne(n) == n <= MAX_POLL_ATTEMPTS

\* The loop of _poll_response goes on while this holds of the next attempt.
InRange(n) == n < MAX_POLL_ATTEMPTS

\* time.sleep(POLL_INTERVAL) returns; the next iteration, or the raise that
\* follows the loop.
GSleep ==
    /\ unit["gemini"] = "running"
    /\ gpc = "sleep"
    /\ sleepCount' = sleepCount + 1
    /\ attempt' = attempt + 1
    /\ IF InRange(attempt + 1)
       THEN gpc' = "poll" /\ UNCHANGED unitVars
       ELSE Finish(ResearchRaise(HTTPError(TimedOutMessage)))
    /\ UNCHANGED <<interaction_id, getCount, nonTermSeen, lastGet, postCount,
                   subResp, httpFailedAt, statusNotices>>
    /\ UNCHANGED orchVars

----------------------------------------------------------------------------

Next ==
    \/ MainNoKeys
    \/ MainMock
    \/ MainDispatch
    \/ StartCollect
    \/ \E p \in Providers : Collect(p)
    \/ ExitPool
    \/ Timeout
    \/ Shutdown
    \/ SortAndEmit
    \/ \E p \in Providers : OtherUnit(p)
    \/ GSubmit
    \/ GSubmitFail
    \/ GPoll
    \/ GPollFail
    \/ GSleep

Spec == Init /\ [][Next]_vars

----------------------------------------------------------------------------
(* Properties of the orchestrator *)

ProviderNames(rs) == [i \in DOMAIN rs |-> rs[i].provider]

Active == Range(available)

Ended == pc \in {"done", "crashed"}

OutcomesOf(rs, p) == {i \in DOMAIN rs : rs[i].provider = p}

\* C1: every invocation that dispatched providers (live or mock) ends with
\* an emitted outcome sequence that holds exactly one outcome per provider
\* of the active set: same length, none missing, none twice.
C1_OneOutcomePerProvider ==
    Ended =>
        /\ output.kind = "results"
        /\ Len(output.results) = Len(available)
        /\ \A p \in Active : Cardinality(OutcomesOf(output.results, p)) = 1

\* The canonical priority the output follows.
CanonicalPriority == <<"openai", "perplexity", "gemini">>

CanonicalOrderOf(set) == SelectSeq(CanonicalPriority, LAMBDA p : p \in set)

\* C2: the provider names of the emitted outcome sequence are the active set
\* in the canonical priority openai, perplexity, gemini, whatever the order
\* in which the units completed.
C2_CanonicalOrder ==
    output.kind = "results" =>
        ProviderNames(output.results) = CanonicalOrderOf(Active)

\* C2 witness: the units completed gemini, perplexity, openai and the output
\* lists them openai, perplexity, gemini.
C2_Witness ==
    /\ pc = "done"
    /\ [i \in DOMAIN notices |-> notices[i][1]] = <<"gemini", "perplexity", "openai">>
    /\ ProviderNames(output.results) = <<"openai", "perplexity", "gemini">>

Raised(p) == outcome[p].kind = "raised"

Returned(p) == outcome[p].kind = "returned"

\* C3: a unit whose research() raised has a failed result whose error holds
\* the failure's type and message; every recorded outcome has the success
\* value its own call produced; a run that is not cut by the global timeout
\* is never aborted and emits the outcome of every active provider.
C3_Isolation ==
    /\ \A p \in Providers : Raised(p) =>
          /\ ~future[p].success
          /\ future[p].error[1] = outcome[p].exc.type
          /\ SubSeq(future[p].error, 3, Len(future[p].error)) = outcome[p].exc.msg
    /\ \A i \in DOMAIN results : ~mock =>
          /\ results[i].provider \in Active
          /\ results[i].success = Returned(results[i].provider)
          /\ results[i] = future[results[i].provider]
    /\ pc \in {"shutdown", "crashed"} => timedOut
    /\ (~mock /\ pc = "done") =>
          \A p \in Active : \E i \in DOMAIN output.results :
              /\ output.results[i].provider = p
              /\ output.results[i].success = Returned(p)

\* C3 witness: openai succeeds, perplexity raises an unclassified failure,
\* gemini succeeds; the output holds the three outcomes.
C3_Witness ==
    /\ pc = "done"
    /\ Returned("openai") /\ Returned("gemini")
    /\ Raised("perplexity") /\ outcome["perplexity"].exc.type = "KeyError"
    /\ [i \in DOMAIN output.results |-> output.results[i].success]
          = <<TRUE, FALSE, TRUE>>
    /\ output.results[2].error = <<"KeyError", ": ", "'choices'">>

IsTimeoutOutcome(r) ==
    /\ ~r.success
    /\ r.error # <<>>
    /\ r.error[1] = "TimeoutError"

\* C4: when the global timeout is reached with units outstanding, the run
\* ends with a result in which each outstanding provider has a failed
\* outcome of the timeout kind and the outcomes collected before are kept.
C4_TimeoutRecorded ==
    (timedOut /\ Ended) =>
        /\ output.kind = "results"
        /\ \A p \in pending : \E i \in DOMAIN output.results :
              output.results[i].provider = p /\ IsTimeoutOutcome(output.results[i])
        /\ \A p \in Active \ pending : \E i \in DOMAIN output.results :
              output.results[i] = future[p]

\* C5: once the global timeout is reached the orchestrator is sorting or has
\* emitted its output: it neither waits for the outstanding units nor ends
\* in a crash.
C5_NoWaitAfterTimeout == timedOut => pc \in {"sort", "done"}

----------------------------------------------------------------------------
(* Properties of the polling loop *)

G == outcome["gemini"]

GotCompleted == lastGet # NoResponse /\ StatusOf(lastGet) \in TerminalCompleted

GotFailed == lastGet # NoResponse /\ StatusOf(lastGet) \in TerminalFailed

\* C6: once a poll has answered completed after k answers without a terminal
\* status, exactly k+1 status checks and k sleeps have been issued and none
\* follows, and research() has returned the report and the citations
\* extracted from that completed response.
C6_PollingProtocol ==
    GotCompleted =>
        /\ gpc = "returned"
        /\ getCount = nonTermSeen + 1
        /\ sleepCount = nonTermSeen
        /\ G.kind = "returned"
        /\ G.report = _extract_report(lastGet).report
        /\ G.citations = _extract_report(lastGet).citations

\* C6 witness: in_progress, in_progress, completed: three status checks and
\* the report of the third response.
C6_Witness ==
    /\ GotCompleted
    /\ getCount = 3 /\ nonTermSeen = 2 /\ sleepCount = 2
    /\ G.kind = "returned"
    /\ G.report = <<"w1", "u1", "u1", "u2">>
    /\ G.citations = <<[url |-> "u1"], [url |-> "u2"]>>

IsPollTimeout(o) ==
    /\ o.kind = "raised"
    /\ o.exc.type = "HTTPError"
    /\ o.exc.msg[1] = "Gemini deep research timed out after "

IsProviderFailure(o) ==
    /\ o.kind = "raised"
    /\ o.exc.type = "HTTPError"
    /\ o.exc.msg[1] = "Gemini deep research failed: "

\* C7: a polling session never issues more than MAX_POLL_ATTEMPTS status
\* checks; when that many polls all answered without a terminal status the
\* session ends (after its sleep) as failed with the timeout error, which is
\* not the error of a failure the provider reported.
C7_AttemptCeiling ==
    /\ getCount <= MAX_POLL_ATTEMPTS
    /\ nonTermSeen = MAX_POLL_ATTEMPTS =>
          /\ gpc \in {"sleep", "raised"}
          /\ gpc = "raised" => IsPollTimeout(G) /\ ~IsProviderFailure(G)
    /\ IsPollTimeout(G) => nonTermSeen = MAX_POLL_ATTEMPTS /\ ~GotFailed
    /\ GotFailed => ~IsPollTimeout(G)

\* C7 witness: forty polls without a terminal status, then the timeout.
C7_Witness ==
    /\ getCount = MAX_POLL_ATTEMPTS
    /\ nonTermSeen = MAX_POLL_ATTEMPTS
    /\ gpc = "raised"
    /\ IsPollTimeout(G)
    /\ future["gemini"].error
          = <<"HTTPError", ": ", "Gemini deep research timed out after ", "600", "s">>

\* The status of the polling session, read off the position of research().
SessionStatus ==
    CASE gpc = "poll" /\ getCount = 0 -> "submitted"
      [] gpc = "poll" /\ getCount > 0 -> "in_progress"
      [] gpc = "sleep" -> "in_progress"
      [] gpc = "returned" -> "completed"
      [] gpc = "raised" -> "failed"
      [] OTHER -> "none"

SessionTerminal == SessionStatus \in {"completed", "failed"}

\* C8: the status of a session only moves forward: a terminal status never
\* changes again and no poll response is consulted after it, and a session
\* in progress never returns to submitted.
C8_Monotonic ==
    [][ /\ SessionTerminal =>
            /\ SessionStatus' = SessionStatus
            /\ getCount' = getCount
            /\ sleepCount' = sleepCount
            /\ lastGet' = lastGet
            /\ outcome'["gemini"] = outcome["gemini"]
        /\ SessionStatus = "in_progress" => SessionStatus' # "submitted"
        /\ SessionStatus # "none" => SessionStatus' # "none" ]_vars

\* C8 witness: a session that failed by exhausting its attempts, seen after
\* the orchestrator went on to emit its output.
C8_Witness ==
    /\ SessionStatus = "failed"
    /\ IsPollTimeout(G)
    /\ pc = "done"

\* C9: once the deadline signal is set (the global timeout was reached), the
\* polling loop begins no further status check and no further sleep.
C9_StopsOnDeadline ==
    [][ timedOut => /\ getCount' = getCount
                    /\ gpc' = "sleep" => gpc = "sleep" ]_vars

ResponseError(resp) == Get(resp, "error", [dict |-> EmptyDict])

\* C10: after a poll response with a failed status research() has raised and
\* returned no report, the message of the failure holds the error message of
\* the response when it has one (a string, or an object with a message), and
\* no further poll was issued.
C10_FailedStatus ==
    GotFailed =>
        /\ gpc = "raised"
        /\ IsProviderFailure(G)
        /\ ~future["gemini"].success /\ future["gemini"].report = <<>>
        /\ IsStr(ResponseError(lastGet)) =>
              G.exc.msg[2] = ResponseError(lastGet).str
        /\ (IsDict(ResponseError(lastGet))
              /\ "message" \in DOMAIN ResponseError(lastGet).dict) =>
              G.exc.msg[2] = ResponseError(lastGet).dict.message
        /\ getCount = nonTermSeen + 1

\* C10 witness: a failed response with a structured error after one pending
\* poll.
C10_Witness ==
    /\ GotFailed
    /\ IsDict(ResponseError(lastGet))
    /\ G.kind = "raised"
    /\ G.exc.msg = <<"Gemini deep research failed: ", "quota exceeded">>
    /\ getCount = 2

----------------------------------------------------------------------------
(* Properties of the HTTP calls of the Gemini client *)

HttpCalls == postCount + getCount

\* C11: a dispatched client issues exactly one submission request, and once
\* one of its HTTP calls (the submission or a status check) has raised it
\* issues no further HTTP call and research() has raised that failure.
C11_NoRetry ==
    /\ postCount <= 1
    /\ gpc \in {"poll", "sleep", "returned", "raised"} => postCount = 1
    /\ gpc \in {"idle", "submit"} => HttpCalls = 0
    /\ httpFailedAt # -1 =>
          /\ HttpCalls = httpFailedAt
          /\ gpc = "raised"
          /\ unit["gemini"] = "done"
          /\ G.kind = "raised" /\ G.exc \in TransportErrors
          /\ ~future["gemini"].success

\* C11 witness: the third HTTP call (the second status check) raised, and
\* the run went on to its output with the three calls issued.
C11_Witness ==
    /\ httpFailedAt = 3
    /\ postCount = 1 /\ getCount = 2
    /\ G.kind = "raised"
    /\ pc = "done"

----------------------------------------------------------------------------
(* The run with the default --timeout *)

\* parser.add_argument("--timeout", type=int, default=600)
DEFAULT_TIMEOUT == 600

\* The seconds the Gemini unit has spent in time.sleep: a lower bound of the
\* time since it was dispatched.
SleptSeconds == POLL_INTERVAL * sleepCount

\* as_completed(futures, timeout=600) yields a future only if it finished
\* before the deadline. The Gemini unit also spends time in its HTTP calls,
\* each longer than the dispatch loop of main(), so it has finished by the
\* deadline only if it slept less than the timeout.
CollectTimed(p) ==
    /\ p = "gemini" => SleptSeconds < DEFAULT_TIMEOUT
    /\ Collect(p)

NextTimed ==
    \/ MainNoKeys
    \/ MainMock
    \/ MainDispatch
    \/ StartCollect
    \/ \E p \in Providers : CollectTimed(p)
    \/ ExitPool
    \/ Timeout
    \/ Shutdown
    \/ SortAndEmit
    \/ \E p \in Providers : OtherUnit(p)
    \/ GSubmit
    \/ GSubmitFail
    \/ GPoll
    \/ GPollFail
    \/ GSleep

SpecTimed == Init /\ [][NextTimed]_vars

\* C12: with the configured constants (15 s interval, 40 attempts, 600 s
\* global timeout), a run in which the Gemini polling ceiling was exhausted
\* ends with a result that holds the failed Gemini outcome with its
\* classified message and the outcome of every sibling provider.
C12_PollTimeoutSurfaced ==
    (IsPollTimeout(G) /\ Ended) =>
        /\ output.kind = "results"
        /\ \A p \in Active : \E i \in DOMAIN output.results :
              output.results[i] = future[p]
        /\ \E i \in DOMAIN output.results :
              /\ output.results[i].provider = "gemini"
              /\ ~output.results[i].success
              /\ output.results[i].error = FormatError(HTTPError(TimedOutMessage))

\* With the default timeout an exhausted polling ceiling is never part of an
\* emitted result.
PollTimeoutNeverEmitted == IsPollTimeout(G) => pc \notin {"sort", "done"}

----------------------------------------------------------------------------
(* The providers a run dispatches *)

HasCredential(p) ==
    /\ config[PROVIDER_KEY_MAP[p]] # NoCred
    /\ config[PROVIDER_KEY_MAP[p]] # ""

\* C13: outside mock mode the dispatched providers are exactly those with a
\* non-empty credential: each of them gets a unit, and a provider without a
\* credential gets no unit, no network call and no outcome.
C13_DispatchedSet ==
    (~mock /\ pc # "start") =>
        /\ Active = {p \in Providers : HasCredential(p)}
        /\ \A p \in Providers :
              IF HasCredential(p)
              THEN unit[p] # "none"
              ELSE /\ unit[p] = "none"
                   /\ outcome[p] = NoOutcome
                   /\ future[p] = NoResult
                   /\ OutcomesOf(results, p) = {}
                   /\ OutcomesOf(output.results, p) = {}
        /\ ~HasCredential("gemini") => HttpCalls = 0 /\ gpc = "idle"

C13_Witness ==
    /\ ~mock
    /\ config["OPENAI_API_KEY"] = "sk-key"
    /\ config["PERPLEXITY_API_KEY"] = ""
    /\ config["GEMINI_API_KEY"] = NoCred
    /\ pc = "done"
    /\ ProviderNames(output.results) = <<"openai">>

----------------------------------------------------------------------------
(* Mock mode *)

\* C14: a --mock run makes no network call and starts no provider unit,
\* whatever the credentials are; it ends, without raising, with exactly one
\* outcome per registered provider, and a provider whose fixture file is
\* missing gets a failed outcome whose error is "Fixture not found: <file>".
C14_MockMode ==
    mock =>
        /\ pc \in {"start", "sort", "done"}
        /\ HttpCalls = 0 /\ gpc = "idle"
        /\ \A p \in Providers : unit[p] = "none" /\ outcome[p] = NoOutcome
        /\ pc # "start" => ProviderNames(results) = AllProviders
        /\ pc = "done" =>
              /\ output.kind = "results"
              /\ Len(output.results) = 3
              /\ \A p \in Providers :
                    /\ Cardinality(OutcomesOf(output.results, p)) = 1
                    /\ ~fixtures[p].exists =>
                          \A i \in OutcomesOf(output.results, p) :
                              /\ ~output.results[i].success
                              /\ output.results[i].error =
                                    <<"Fixture not found: ", fixture_map[p]>>

C14_Witness ==
    /\ mock
    /\ \A k \in _KEY_NAMES : config[k] = NoCred
    /\ ~fixtures["gemini"].exists
    /\ fixtures["openai"].exists /\ fixtures["openai"].data # EmptyDict
    /\ pc = "done"
    /\ output.results[1].success
    /\ output.results[3].error = <<"Fixture not found: ", "gemini_sample.json">>

----------------------------------------------------------------------------
(* How a run ends *)

Terminated == pc \in {"done", "crashed", "exit1"}

NoCredentials == \A p \in Providers : ~HasCredential(p)

\* C15: a run ends as a whole-invocation failure exactly when it is not in
\* mock mode and no provider has a credential; then no provider was
\* dispatched and the error result has an empty outcome list. Every other
\* run that has ended has emitted a result.
C15_WholeInvocationFailure ==
    Terminated =>
        /\ pc = "exit1" <=> (~mock /\ NoCredentials)
        /\ pc = "exit1" =>
              /\ output = [kind |-> "error", results |-> <<>>]
              /\ Active = {}
              /\ \A p \in Providers : unit[p] = "none"
              /\ HttpCalls = 0
        /\ pc # "exit1" => output.kind = "results"

----------------------------------------------------------------------------
(* Extraction of the report and the citations from a completed response *)

MaxTextLen == 3
MaxSources == 2

SeqsUpTo(S, n) == UNION { [1..k -> S] : k \in 0..n }

\* Report texts: plain words and URLs, repeated or not.
Texts == SeqsUpTo({"w", "u1", "u2"}, MaxTextLen)

\* The places a completed response may hold its report in.
ReportFields ==
    { EmptyDict }
    \cup { "outputs" :> << [dict |-> [text |-> t]] >> : t \in Texts }
    \cup { "outputs" :> << [dict |-> [content |-> <<"u2", "u2">>]] >>,
           "outputs" :> << [str |-> <<"u1", "w", "u1">>] >>,
           "outputs" :> << [dict |-> [text |-> <<"u1">>]],
                           [dict |-> [text |-> <<"u2", "w", "u2">>]] >>,
           "result" :> [dict |-> [text |-> <<"u2", "u1", "u2">>]],
           ("outputs" :> << [dict |-> [text |-> <<>>]] >>)
             @@ ("result" :> [dict |-> [content |-> <<"w", "u1">>]]) }

\* Items of a source list: bare strings, records, and anything else.
SourceItems ==
    { [str |-> "u1"],
      [str |-> "u2"],
      [dict |-> [url |-> "u1", title |-> "t1"]],
      [dict |-> [uri |-> "u2"]],
      [num |-> 0] }

SourceFields ==
    { EmptyDict }
    \cup { "sources" :> [list |-> l] : l \in SeqsUpTo(SourceItems, MaxSources) }
    \cup { "sources" :> [str |-> "u1"],
           "groundingMetadata" :> EmptyDict,
           "groundingMetadata" :>
              [webSearchQueries |-> [list |-> << [str |-> "u1"] >>]] }

\* Completed responses to GET /interactions/{id}
CompletedResponses ==
    { ("status" :> "completed") @@ r @@ c :
        <<r, c>> \in ReportFields \X SourceFields }

\* research() with a Gemini credential only, after the submission returned
\* a job name and before the first status check.
InitExtract ==
    /\ mock = FALSE
    /\ config = [k \in _KEY_NAMES |->
                   IF k = "GEMINI_API_KEY" THEN "sk-key" ELSE NoCred]
    /\ fixtures = NoFixtures
    /\ pc = "collect"
    /\ available = <<"gemini">>
    /\ unit = [p \in Providers |-> IF p = "gemini" THEN "running" ELSE "none"]
    /\ future = [p \in Providers |-> NoResult]
    /\ pending = {"gemini"}
    /\ results = <<>>
    /\ timedOut = FALSE
    /\ output = NoOutput
    /\ gpc = "poll"
    /\ interaction_id = JobId
    /\ attempt = 0
    /\ getCount = 0
    /\ sleepCount = 0
    /\ nonTermSeen = 0
    /\ lastGet = NoResponse
    /\ outcome = [p \in Providers |-> NoOutcome]
    /\ notices = <<>>
    /\ postCount = 1
    /\ subResp = << "name" :> JobId >>
    /\ httpFailedAt = -1
    /\ statusNotices = 0
    /\ finished = <<>>
    /\ snapshot = {}

\* The status check that returns a completed response: _poll_response
\* returns it and research() returns what _extract_report makes of it.
GPollCompleted ==
    /\ CanPoll
    /\ \E resp \in CompletedResponses :
          /\ lastGet' = resp
          /\ HandlePoll(resp)
    /\ getCount' = getCount + 1
    /\ UNCHANGED <<interaction_id, attempt, sleepCount, nonTermSeen, postCount,
                   subResp, httpFailedAt>>
    /\ UNCHANGED orchVars

NextExtract == GPollCompleted

SpecExtract == InitExtract /\ [][NextExtract]_vars

----------------------------------------------------------------------------
(* Citations *)

UrlsOf(cs) == [i \in DOMAIN cs |-> cs[i].url]

NoDuplicates(s) == \A i, j \in DOMAIN s : s[i] = s[j] => i = j

FirstIndex(text, u) ==
    CHOOSE k \in DOMAIN text :
        text[k] = u /\ \A n \in 1..(k - 1) : text[n] # u

\* The response carries no structured citation list.
NoSourceList(resp) ==
    /\ "sources" \notin DOMAIN resp
    /\ "groundingMetadata" \notin DOMAIN resp

\* C16: for a completed response without a structured citation list whose
\* report holds literal URLs, the citations are the distinct URLs of the
\* report, each once, in the order of their first occurrence; deduplicating
\* the extracted list again changes nothing.
C16_FallbackDedup ==
    (G.kind = "returned" /\ NoSourceList(lastGet)) =>
        LET us == UrlsOf(G.citations) IN
        /\ NoDuplicates(us)
        /\ Range(us) = Range(G.report) \cap UrlTokens
        /\ \A i, j \in DOMAIN us :
              i < j => FirstIndex(G.report, us[i]) < FirstIndex(G.report, us[j])
        /\ \A i \in DOMAIN us : G.citations[i] = [url |-> us[i]]
        /\ Dedupe(us, {}) = G.citations

C16_Witness ==
    /\ G.kind = "returned"
    /\ NoSourceList(lastGet)
    /\ G.report = <<"u2", "u1", "u2">>
    /\ G.citations = << [url |-> "u2"], [url |-> "u1"] >>

\* C17: whatever the shape of the response, the citation list of one
\* extraction holds no two records with the same URL.
C17_NoDuplicateUrls ==
    G.kind = "returned" => NoDuplicates(UrlsOf(G.citations))

\* The list the structured pass reads, and its items that are a bare
\* string or a record.
SourceListOf(resp) ==
    LET v == IF "sources" \in DOMAIN resp THEN resp["sources"]
             ELSE IF /\ "groundingMetadata" \in DOMAIN resp
                     /\ "webSearchQueries" \in DOMAIN resp["groundingMetadata"]
                  THEN resp["groundingMetadata"]["webSearchQueries"]
                  ELSE [list |-> <<>>]
    IN  IF "list" \in DOMAIN v THEN v.list ELSE <<>>

StructuredSources(resp) ==
    SelectSeq(SourceListOf(resp), LAMBDA x : IsStr(x) \/ IsDict(x))

CitationMatches(c, src) ==
    IF IsStr(src)
    THEN c = [url |-> src.str]
    ELSE /\ c.url = (IF "url" \in DOMAIN src.dict THEN src.dict["url"]
                     ELSE IF "uri" \in DOMAIN src.dict THEN src.dict["uri"]
                     ELSE "")
         /\ c.title = (IF "title" \in DOMAIN src.dict THEN src.dict["title"]
                       ELSE "")

\* C18: when the response has at least one structured source, the citations
\* are exactly these sources in their order, whatever URLs the report text
\* holds; the URLs of the report become citations only when the structured
\* pass produced none.
C18_SourcePriority ==
    G.kind = "returned" =>
        LET kept == StructuredSources(lastGet) IN
        IF kept # <<>>
        THEN /\ Len(G.citations) = Len(kept)
             /\ \A i \in DOMAIN kept : CitationMatches(G.citations[i], kept[i])
        ELSE Range(UrlsOf(G.citations)) = Range(G.report) \cap UrlTokens

C18_Witness ==
    /\ G.kind = "returned"
    /\ StructuredSources(lastGet) =
          << [dict |-> [url |-> "u1", title |-> "t1"]], [str |-> "u1"] >>
    /\ G.report = <<"u2", "w", "u2">>
    /\ G.citations = << [url |-> "u1", title |-> "t1"], [url |-> "u1"] >>

----------------------------------------------------------------------------
(* Responses that do not follow the protocol *)

\* The submission response has no job identifier under name, id or
\* interactionId.
NoJobId(resp) ==
    \A k \in {"name", "id", "interactionId"} :
        k \notin DOMAIN resp \/ resp[k] = ""

\* C19: when the submission response holds no job identifier under name, id
\* or interactionId, research() raises the "No interaction ID" error, which
\* becomes a failed outcome; no polling session exists and no status check
\* is issued, whatever else the response holds.
C19_NoJobId ==
    (subResp # <<>> /\ NoJobId(subResp[1])) =>
        /\ gpc = "raised"
        /\ G = ResearchRaise(HTTPError(NoIdMessage))
        /\ ~future["gemini"].success
        /\ future["gemini"].error = <<"HTTPError", ": ">> \o NoIdMessage
        /\ interaction_id = ""
        /\ getCount = 0 /\ sleepCount = 0 /\ attempt = 0
        /\ lastGet = NoResponse
        /\ HttpCalls = 1

C19_Witness ==
    /\ subResp # <<>>
    /\ NoJobId(subResp[1])
    /\ "status" \in DOMAIN subResp[1] /\ subResp[1]["status"] = "completed"
    /\ "outputs" \in DOMAIN subResp[1]
    /\ pc = "done"
    /\ ProviderNames(output.results) = <<"gemini">>
    /\ ~output.results[1].success
    /\ getCount = 0

\* The poll response has no status, neither at the top nor under metadata.
LacksStatus(resp) ==
    /\ "status" \notin DOMAIN resp
    /\ \/ "metadata" \notin DOMAIN resp
       \/ "status" \notin DOMAIN resp["metadata"]

\* C20: after a poll response that lacks the status field the client call
\* has failed with a protocol-mismatch error and the provider has a failed
\* outcome.
C20_MissingStatusFails ==
    (getCount > 0 /\ LacksStatus(lastGet)) =>
        /\ gpc = "raised"
        /\ G.kind = "raised"
        /\ ~future["gemini"].success
        /\ unit["gemini"] = "done"

----------------------------------------------------------------------------
(* One iteration of the polling loop *)

\* A step in which an http.get returned a response.
PollReturned == getCount' = getCount + 1 /\ httpFailedAt' = httpFailedAt

\* A step in which a time.sleep returned.
SleepReturned == sleepCount' = sleepCount + 1

\* C21: a poll ends the session as completed on completed/COMPLETED, as
\* failed on failed/FAILED, and on every other status writes one progress
\* notice and goes to one sleep, after which the next poll follows while
\* attempts remain; every poll is issued with as many sleeps done as
\* non-terminal polls seen.
C21_StatusClassification ==
    [][ /\ PollReturned =>
              LET s == StatusOf(lastGet') IN
              /\ gpc = "poll"
              /\ sleepCount = statusNotices
              /\ s \in {"completed", "COMPLETED"} =>
                    /\ gpc' = "returned"
                    /\ outcome'["gemini"].kind = "returned"
                    /\ statusNotices' = statusNotices
              /\ s \in {"failed", "FAILED"} =>
                    /\ gpc' = "raised"
                    /\ outcome'["gemini"].kind = "raised"
                    /\ statusNotices' = statusNotices
              /\ s \notin {"completed", "COMPLETED", "failed", "FAILED"} =>
                    /\ gpc' = "sleep"
                    /\ unit'["gemini"] = "running"
                    /\ statusNotices' = statusNotices + 1
        /\ SleepReturned =>
              /\ gpc = "sleep"
              /\ statusNotices = sleepCount + 1
              /\ getCount' = getCount
              /\ attempt' = attempt + 1
              /\ attempt' < MAX_POLL_ATTEMPTS => gpc' = "poll"
        /\ gpc = "sleep" => getCount' = getCount
      ]_vars

C21_Witness ==
    /\ StatusOf(lastGet) = "Completed"
    /\ gpc = "poll"
    /\ getCount = 2 /\ sleepCount = 2 /\ statusNotices = 2
    /\ unit["gemini"] = "running"

----------------------------------------------------------------------------
(* The shape of an outcome *)

WellShaped(r) ==
    /\ ~r.success => r.report = <<>> /\ r.error # NoError
    /\ r.success => r.error = NoError

AllWellShaped(rs) == \A i \in DOMAIN rs : WellShaped(rs[i])

\* C22: every outcome collected or emitted has an empty report and an error
\* when it failed, and no error when it succeeded, in live runs and in mock
\* runs alike.
C22_OutcomeShape ==
    /\ AllWellShaped(results)
    /\ AllWellShaped(output.results)
    /\ \A p \in Providers : unit[p] = "done" => WellShaped(future[p])

\* The outcomes of live provider calls are well shaped.
LiveOutcomeShape == ~mock => C22_OutcomeShape

----------------------------------------------------------------------------
(* Termination *)

\* Every HTTP call and every sleep returns, a finished future is yielded or
\* the deadline passes, and main() goes on: a step that can be taken is
\* eventually taken.
\* The runs checked for termination: mock runs and live runs with at most
\* two of the three providers configured.
MaxLiveProviders == 2

InitLive ==
    /\ Init
    /\ mock \/ Len(get_available_providers(config)) <= MaxLiveProviders

SpecLive == InitLive /\ [][Next]_vars /\ WF_vars(Next)

AllUnitsComplete == \A p \in Providers : unit[p] # "running"

CollectionEnded == pc \in {"sort", "done", "crashed", "exit1"}

\* C23: research() issues at most one submission and MAX_POLL_ATTEMPTS
\* status checks and then has returned or raised, whatever the statuses
\* are; the collection phase of main() eventually ends, and when it has
\* ended every unit is complete.
C23_Termination ==
    /\ [](postCount <= 1 /\ getCount <= MAX_POLL_ATTEMPTS)
    /\ [](gpc \in {"submit", "poll", "sleep"} => unit["gemini"] = "running")
    /\ <>[](gpc \in {"idle", "returned", "raised"})
    /\ <>[]AllUnitsComplete
    /\ <>[]CollectionEnded
    /\ [](CollectionEnded => AllUnitsComplete)

C23_Witness ==
    /\ postCount = 1
    /\ getCount = MAX_POLL_ATTEMPTS
    /\ gpc = "returned"
    /\ pc = "done"
    /\ AllUnitsComplete

----------------------------------------------------------------------------
(* Completion notices *)

\* A step of the collection loop that handles the future of provider p.
Handled(p) == p \in pending /\ p \notin pending'

\* C24: every handled future belongs to a unit that has completed, gets one
\* notice, and is the earliest completed of the units not handled yet, so
\* that the notices follow the order of completion; whenever a completed
\* unit is waiting, the loop can handle one without waiting for a unit that
\* still runs; when the run has ended every completed unit has its notice.
C24_NoticeOrder ==
    /\ [][ \A p \in Providers :
              Handled(p) =>
                  /\ unit[p] = "done"
                  /\ notices' = Append(notices, Notice(p, future[p]))
                  /\ p = Head(finished) ]_vars
    /\ []( (pc = "collect" /\ finished # <<>>) =>
              \E q \in pending : unit[q] = "done" /\ YieldsNext(q) )
    /\ []( Ended =>
              \A p \in Active :
                  unit[p] = "done" =>
                      Cardinality({i \in DOMAIN notices : notices[i][1] = p}) = 1 )

----------------------------------------------------------------------------
(* A notice that cannot be written *)

\* What sys.stderr.write or flush raises when stderr cannot take the line.
WriteErrors == { [type |-> "BlockingIOError", msg |-> <<"write could not complete">>] }

\* The body of the as_completed loop when writing the notice raises after
\* results.append(result): the except branch appends a failed outcome and
\* writes its own notice, which goes through or raises out of the loop.
CollectWriteFails(p) ==
    /\ pc = "collect"
    /\ p \in pending
    /\ unit[p] = "done"
    /\ YieldsNext(p)
    /\ \E e \in WriteErrors :
          results' = Append(Collected(p),
                            ProviderResult(p, FALSE, <<>>, <<>>, FormatError(e)))
    /\ \E again \in BOOLEAN :
          IF again
          THEN pc' = "shutdown" /\ UNCHANGED notices
          ELSE pc' = pc /\ notices' = Append(notices, <<p, "FAIL">>)
    /\ pending' = pending \ {p}
    /\ finished' = Without(finished, p)
    /\ snapshot' = snapshot \ {p}
    /\ UNCHANGED <<mock, config, fixtures, available, timedOut, output>>
    /\ UNCHANGED <<unit, future, outcome>>
    /\ UNCHANGED gemVars

NextWrite ==
    \/ Next
    \/ \E p \in Providers : CollectWriteFails(p)

\* Checked on the runs of InitLive.
SpecWrite == InitLive /\ [][NextWrite]_vars

\* C25: the collected list never holds more than one outcome of the same
\* provider, also when writing a notice fails after the outcome was
\* appended.
C25_OneOutcomePerUnit ==
    \A p \in Providers : Cardinality(OutcomesOf(results, p)) <= 1

----------------------------------------------------------------------------
(* A submission that is answered with the finished job *)

SubmissionCompleted ==
    /\ subResp # <<>>
    /\ StatusOf(subResp[1]) \in {"completed", "COMPLETED"}

\* What research() has done when it returned the content of the submission
\* response without polling.
ReturnedFromSubmission ==
    /\ getCount = 0 /\ sleepCount = 0 /\ statusNotices = 0
    /\ lastGet = NoResponse
    /\ gpc = "returned"
    /\ G.kind = "returned"
    /\ G.report = _extract_report(subResp[1]).report
    /\ G.citations = _extract_report(subResp[1]).citations
    /\ future["gemini"].success
    /\ future["gemini"].report = G.report

\* C26 as stated: whenever the submission response carries a completed
\* status, research() issues no status check and no sleep and returns the
\* report and the citations of the submission response.
C26_CompletedAtSubmission == SubmissionCompleted => ReturnedFromSubmission

\* C26 amended: the same, for a submission response that also carries a job
\* identifier.
C26_CompletedWithId ==
    (SubmissionCompleted /\ ~NoJobId(subResp[1]) /\ interaction_id # "")
        => ReturnedFromSubmission

C26_Witness ==
    /\ SubmissionCompleted
    /\ "id" \in DOMAIN subResp[1] /\ "name" \notin DOMAIN subResp[1]
    /\ "outputs" \in DOMAIN subResp[1]
    /\ ReturnedFromSubmission
    /\ G.citations = << [url |-> "u1"], [url |-> "u2"] >>
    /\ pc = "done"
    /\ output.results[1].success

----------------------------------------------------------------------------
(* The last iteration of the polling loop *)

\* C27: when every poll answered with a non-terminal status, the timeout
\* failure is raised after exactly MAX_POLL_ATTEMPTS status checks and
\* exactly MAX_POLL_ATTEMPTS sleeps: the step that raises it is the return
\* of a sleep, the one that follows the last check, and no poll follows.
C27_FinalSleep ==
    /\ []( IsPollTimeout(G) =>
              /\ getCount = MAX_POLL_ATTEMPTS
              /\ sleepCount = MAX_POLL_ATTEMPTS
              /\ nonTermSeen = MAX_POLL_ATTEMPTS
              /\ gpc = "raised" )
    /\ []( (nonTermSeen = MAX_POLL_ATTEMPTS /\ ~IsPollTimeout(G)) =>
              /\ gpc = "sleep"
              /\ sleepCount = MAX_POLL_ATTEMPTS - 1
              /\ unit["gemini"] = "running" )
    /\ [][ (~IsPollTimeout(G) /\ IsPollTimeout(outcome'["gemini"])) =>
              /\ gpc = "sleep"
              /\ sleepCount' = sleepCount + 1
              /\ getCount' = getCount ]_vars
    /\ [][ IsPollTimeout(G) => getCount' = getCount /\ sleepCount' = sleepCount
         ]_vars

C27_Witness ==
    /\ IsPollTimeout(G)
    /\ sleepCount = MAX_POLL_ATTEMPTS
    /\ statusNotices = MAX_POLL_ATTEMPTS
    /\ StatusOf(lastGet) = "in_progress"
    /\ pc = "done"
    /\ ~output.results[1].success

====
